---- MODULE Spec2Model ----
(***************************************************************************)
(* Conversational symptom assessment: the follow-up dialogue of            *)
(* SymptomChat, the symptom-followup and analyze-symptoms handlers, the    *)
(* hand-off to handleConversationComplete, and the symptom_history table   *)
(* with the SymptomHistory view on it.                                     *)
(*                                                                         *)
(* Text is a sequence of one-character strings.  The completion marker     *)
(* "[ANALYSIS_READY]" is written with its bracket structure kept and its   *)
(* inner word shortened to one letter, so that a marker can overlap or     *)
(* enclose another one exactly as in the original text.                    *)
(***************************************************************************)
EXTENDS Integers, Sequences, FiniteSets, TLC

\* ------------------------------------------------------------------ bounds
\* the whole system (Spec) and the history view (SpecHistory)
MaxTurns == 1
MaxClock == 2
MaxOps == 1
\* the dialogue alone (SpecChat)
ChatTurns == 2
\* a long dialogue (SpecCeiling)
CeilingTurns == 8
\* completion-marker stripping (SpecStrip) and context assembly (SpecCtx)
MaxReplyLen == 6
MaxFetched == 3
\* SpecRefresh: the last reading of the browser's clock, and the requests of
\* the history view in flight
RefreshClock == 1
RefreshOps == 2
\* SpecOverlap: the user's messages in one session
OverlapTurns == 3
\* the longest text content of a reply to a report request
MaxContentLen == 5

\* --------------------------------------------------------------- constants
HistoryLimit == 20
ContextLimit == 10
\* the largest number of questions the system prompt asks the engine to stop at
TurnCeiling == 7
\* ReportUpload: accepted declared types and the largest accepted size, 10 * 1024 * 1024
ACCEPTED_TYPES == {"image/jpeg", "image/png", "image/webp", "image/gif"}
MAX_SIZE == 10485760

Null == "null"
NoUser == "anon"

\* -------------------------------------------------------------------- text
Marker == <<"[", "R", "]">>
ErrorText == <<"E">>
Alphabet == {"[", "R", "]", " ", "q"}

IsWhitespace(c) == c = " "

RECURSIVE TrimStart(_)
TrimStart(s) ==
    IF s = <<>> THEN <<>>
    ELSE IF IsWhitespace(Head(s)) THEN TrimStart(Tail(s))
    ELSE s

RECURSIVE TrimEnd(_)
TrimEnd(s) ==
    IF s = <<>> THEN <<>>
    ELSE IF IsWhitespace(s[Len(s)]) THEN TrimEnd(SubSeq(s, 1, Len(s) - 1))
    ELSE s

\* String.prototype.trim
Trim(s) == TrimEnd(TrimStart(s))

\* String.prototype.indexOf, 1-based; 0 when pat does not occur
IndexOf(s, pat) ==
    LET hits == {i \in 1..(Len(s) - Len(pat) + 1) :
                    SubSeq(s, i, i + Len(pat) - 1) = pat}
    IN IF hits = {} THEN 0
       ELSE CHOOSE i \in hits : \A j \in hits : i <= j

\* String.prototype.includes
Includes(s, pat) == IndexOf(s, pat) # 0

\* String.prototype.replace with a string pattern: the first occurrence only
ReplaceFirst(s, pat, rep) ==
    LET i == IndexOf(s, pat)
    IN IF i = 0 THEN s
       ELSE SubSeq(s, 1, i - 1) \o rep \o SubSeq(s, i + Len(pat), Len(s))

\* symptom-followup: the body of the 200 response for engine content `question`
FollowupBody(question) ==
    LET isComplete == Includes(question, Marker)
    IN [question |-> IF isComplete
                        THEN Trim(ReplaceFirst(question, Marker, <<>>))
                        ELSE question,
        isComplete |-> isComplete]

\* ------------------------------------------------------------------- state
VARIABLES
    \* SymptomChat
    messages, isLoading, hasStarted, req, timers,
    \* Home
    isAnalyzing, analysisResult, conversationHistory, analyses, user,
    \* symptom_history table (nextId: its next id and creation time) and the
    \* browser's clock
    store, nextId, now,
    \* profiles table
    profiles,
    \* SymptomHistory
    history, loading, togglingCuredId, deletingId, ops,
    \* the exchange with the reasoning engine made in the last step (none when
    \* the step called no engine; a request posted to a handler is recorded also
    \* when the handler rejects it), the change the last step made to the table
    \* (none when it made none), and call counts
    exchange, written, engineCalls, rejected, sentCount, handoffs,
    \* the notification the last step showed to the user (none when it showed
    \* none)
    toast,
    \* ReportUpload's chosen file and Home's displayed report analysis
    selectedFile, reportAnalysis

chatVars == <<messages, isLoading, hasStarted, req, timers>>
homeVars == <<isAnalyzing, analysisResult, conversationHistory, analyses>>
storeVars == <<store, nextId, now>>
viewVars == <<history, loading, togglingCuredId, deletingId, ops>>
countVars == <<engineCalls, rejected, sentCount, handoffs>>
obsVars == <<exchange, written, countVars, toast>>
reportVars == <<selectedFile, reportAnalysis>>
vars == <<chatVars, homeVars, user, profiles, storeVars, viewVars, obsVars, reportVars>>

\* ---------------------------------------------------------------- messages
UserMsg(c) == [role |-> "user", content |-> c]
AssistantMsg(c) == [role |-> "assistant", content |-> c]

UserCount(ms) == Cardinality({i \in DOMAIN ms : ms[i].role = "user"})

IsPrefix(a, b) == Len(a) <= Len(b) /\ SubSeq(b, 1, Len(a)) = a

RECURSIVE SelectUserContents(_)
SelectUserContents(ms) ==
    IF ms = <<>> THEN <<>>
    ELSE IF Head(ms).role = "user"
         THEN <<Head(ms).content>> \o SelectUserContents(Tail(ms))
         ELSE SelectUserContents(Tail(ms))

\* Array.prototype.join(' | ')
RECURSIVE JoinBar(_)
JoinBar(cs) ==
    IF cs = <<>> THEN <<>>
    ELSE IF Len(cs) = 1 THEN Head(cs)
    ELSE Head(cs) \o <<" ", "|", " ">> \o JoinBar(Tail(cs))

\* a text that joins the contents of every message, whatever its role, against
\* which the selection of the user's messages is tested
SymptomsTextAll(ms) == JoinBar([n \in DOMAIN ms |-> ms[n].content])

\* messages.filter(m => m.role === 'user').map(m => m.content).join(' | ')
SymptomsText(ms) == JoinBar(SelectUserContents(ms))

\* ------------------------------------------------------------------- store
\* an ordering with the oldest row first, against which the order of the
\* fetched list is tested
RECURSIVE SortAsc(_)
SortAsc(rows) ==
    IF rows = {} THEN <<>>
    ELSE LET low == CHOOSE r \in rows : \A q \in rows : r.created_at <= q.created_at
         IN <<low>> \o SortAsc(rows \ {low})

RECURSIVE SortDesc(_)
SortDesc(rows) ==
    IF rows = {} THEN <<>>
    ELSE LET top == CHOOSE r \in rows : \A q \in rows : q.created_at <= r.created_at
         IN <<top>> \o SortDesc(rows \ {top})

Take(s, n) == SubSeq(s, 1, IF Len(s) < n THEN Len(s) ELSE n)

\* .order('created_at', { ascending: false }).limit(n) over the rows of uid
ListRecent(rows, uid, n) == Take(SortDesc({r \in rows : r.user_id = uid}), n)

\* SQL boolean column values as the client sees them; NullTime is a NULL timestamp
SqlTrue == "true"
SqlFalse == "false"
NullTime == 0
NoId == 0

ToSql(b) == IF b THEN SqlTrue ELSE SqlFalse
\* JavaScript truthiness of a nullable boolean column
Truthy(v) == v = SqlTrue

\* a filter that keeps only the entries stored as false, against which the
\* partition is tested: it drops the entries whose is_cured is NULL
RECURSIVE UncuredHistoryStrict(_)
UncuredHistoryStrict(h) ==
    IF h = <<>> THEN <<>>
    ELSE IF Head(h).is_cured = SqlFalse
         THEN <<Head(h)>> \o UncuredHistoryStrict(Tail(h))
         ELSE UncuredHistoryStrict(Tail(h))

\* history.filter(h => !h.is_cured)
RECURSIVE UncuredHistory(_)
UncuredHistory(h) ==
    IF h = <<>> THEN <<>>
    ELSE IF ~Truthy(Head(h).is_cured)
         THEN <<Head(h)>> \o UncuredHistory(Tail(h))
         ELSE UncuredHistory(Tail(h))

\* history.filter(h => h.is_cured)
RECURSIVE CuredHistory(_)
CuredHistory(h) ==
    IF h = <<>> THEN <<>>
    ELSE IF Truthy(Head(h).is_cured)
         THEN <<Head(h)>> \o CuredHistory(Tail(h))
         ELSE CuredHistory(Tail(h))

\* the columns each handler selects
FollowupColumns(r) ==
    [symptoms |-> r.symptoms, possible_conditions |-> r.possible_conditions,
     urgency_level |-> r.urgency_level, created_at |-> r.created_at,
     is_cured |-> r.is_cured]
AssessColumns(r) ==
    [symptoms |-> r.symptoms, possible_conditions |-> r.possible_conditions,
     urgency_level |-> r.urgency_level, created_at |-> r.created_at]

\* A context bundle: `profile` is the profile block (<<>>: none), `fetched` is
\* the history the handler read, `relevant` the
\* block the engine is told to consider, `excluded` the block it is told not
\* to include.
EmptyContext == [profile |-> <<>>, fetched |-> <<>>, relevant |-> <<>>, excluded |-> <<>>]

\* One request served by a handler: the handler, what it sent to the engine
\* (context bundle and transcript), the engine's reply content, the status and
\* follow-up body the handler answered with, how many times it called the
\* engine, and whether it read profiles and symptom_history (it does when it
\* gets as far as its storage block and the request names a userId). For the two
\* analysis handlers `arguments` holds the arguments of the engine's tool call
\* and `result` the analysis the handler answered with (<<>>: none).
Exchange(h, ctx, ms, reply, resp, body) ==
    [handler |-> h, context |-> ctx, transcript |-> ms, reply |-> reply,
     status |-> resp.status, question |-> body.question,
     isComplete |-> body.isComplete, engine |-> resp.engine, reads |-> resp.reads,
     arguments |-> <<>>, result |-> <<>>]

\* symptom-followup: userContext from the profile and the fetched history (data
\* null: no block)
FollowupContext(profile, fetched) ==
    [profile |-> profile, fetched |-> fetched, relevant |-> UncuredHistory(fetched),
     excluded |-> CuredHistory(fetched)]

\* analyze-symptoms: userContext holds the profile and lists every fetched entry
\* as previous history
AssessContext(profile, fetched) ==
    [profile |-> profile, fetched |-> fetched, relevant |-> fetched, excluded |-> <<>>]

\* One change of the table: the statement, and the rows it touched as they
\* were before and as they are after it.
Write(k, before, after) == [kind |-> k, before |-> before, after |-> after]
NoWrite == Write("none", <<>>, <<>>)
RowsWithId(rows, id) == SortDesc({r \in rows : r.id = id})

\* toast.success(text) and toast.error(text)
Toast(k, text) == [kind |-> k, text |-> text]
NoToast == Toast("none", "")
AnalysisComplete == Toast("success", "Analysis complete!")
AnalysisFailed == Toast("error", "Failed to analyze symptoms. Please try again.")
LoadFailed == Toast("error", "Failed to load symptom history")
UpdateFailed == Toast("error", "Failed to update status")
DeleteFailed == Toast("error", "Failed to delete entry")
MarkedCured == Toast("success", "Marked as cured!")
MarkedNotCured == Toast("success", "Marked as not cured")
EntryDeleted == Toast("success", "Entry deleted")

\* if (userId): a handler that got as far as its storage block reads only for
\* a request that names a userId
ReadingAlways(resp, uid) == resp
Reading(resp, uid) == [resp EXCEPT !.reads = resp.reads /\ uid # NoUser]

\* the profile a handler fetches for userId: .single() yields data only when
\* exactly one row matches; profileOk = FALSE is a failed read
ProfileColumns(r) ==
    [full_name |-> r.full_name, age |-> r.age, health_issues |-> r.health_issues]
FetchProfile(rows, uid, profileOk) ==
    LET found == {r \in rows : r.user_id = uid}
    IN IF uid = NoUser \/ ~profileOk \/ Cardinality(found) # 1 THEN <<>>
       ELSE <<ProfileColumns(CHOOSE r \in found : TRUE)>>

\* the history a handler fetches for userId; readOk = FALSE is a failed read
FetchForFollowup(rows, uid, readOk) ==
    IF uid = NoUser \/ ~readOk THEN <<>>
    ELSE LET data == ListRecent(rows, uid, ContextLimit)
         IN [i \in DOMAIN data |-> FollowupColumns(data[i])]

FetchForAssess(rows, uid, readOk) ==
    IF uid = NoUser \/ ~readOk THEN <<>>
    ELSE LET data == ListRecent(rows, uid, ContextLimit)
         IN [i \in DOMAIN data |-> AssessColumns(data[i])]

\* ---------------------------------------------------------------- handlers
\* What the reasoning engine (or the network) does to one follow-up request.
UserInputs == {<<"a">>, <<" ", "b">>, <<" ">>, <<>>}
EngineReplies == {<<"q">>, Marker, <<"q", " ">> \o Marker, Marker \o Marker, <<>>}
UpstreamCodes == {429, 402, 500}

Outcome(k, c, t) == [kind |-> k, code |-> c, content |-> t]
FollowupOutcomes ==
    {Outcome("neterr", 0, <<>>), Outcome("config", 0, <<>>)}
    \cup {Outcome("upstream", c, <<>>) : c \in UpstreamCodes}
    \cup {Outcome("ok", 200, r) : r \in EngineReplies}

NoBody == [question |-> <<>>, isComplete |-> FALSE]
NoExchange ==
    Exchange("none", EmptyContext, <<>>, <<>>,
             [status |-> 0, engine |-> 0, reads |-> FALSE], NoBody)

\* a handler that calls the engine a second time when the first call fails,
\* against which the single call is tested
SymptomFollowupRetries(msgs, o) ==
    IF msgs = <<>> THEN [status |-> 400, body |-> NoBody, engine |-> 0, reads |-> FALSE]
    ELSE IF o.kind = "config" THEN [status |-> 500, body |-> NoBody, engine |-> 0, reads |-> FALSE]
    ELSE IF o.kind = "upstream"
         THEN [status |-> IF o.code \in {429, 402} THEN o.code ELSE 500,
               body |-> NoBody, engine |-> 2, reads |-> TRUE]
    ELSE IF o.content = <<>> THEN [status |-> 500, body |-> NoBody, engine |-> 1, reads |-> TRUE]
    ELSE [status |-> 200, body |-> FollowupBody(o.content), engine |-> 1, reads |-> TRUE]

\* symptom-followup handler: status and body of its response, and how many
\* times it called the reasoning engine before answering
SymptomFollowup(msgs, o) ==
    IF msgs = <<>> THEN [status |-> 400, body |-> NoBody, engine |-> 0, reads |-> FALSE]
    ELSE IF o.kind = "config" THEN [status |-> 500, body |-> NoBody, engine |-> 0, reads |-> FALSE]
    ELSE IF o.kind = "upstream"
         THEN [status |-> IF o.code \in {429, 402} THEN o.code ELSE 500,
               body |-> NoBody, engine |-> 1, reads |-> TRUE]
    ELSE IF o.content = <<>> THEN [status |-> 500, body |-> NoBody, engine |-> 1, reads |-> TRUE]
    ELSE [status |-> 200, body |-> FollowupBody(o.content), engine |-> 1, reads |-> TRUE]

\* response.ok
ResponseOk(status) == status >= 200 /\ status <= 299

Result(u) ==
    [possibleConditions |-> <<[name |-> "c", description |-> "d", likelihood |-> "Medium"]>>,
     recommendations |-> <<"rest">>,
     urgencyLevel |-> u]
EngineResults == {Result("Emergency"), Result("Non-urgent")}
NoResult == [possibleConditions |-> <<>>, recommendations |-> <<>>, urgencyLevel |-> ""]

AnalyzeOutcome(k, c, r) == [kind |-> k, code |-> c, result |-> r]
AnalyzeOutcomes ==
    {AnalyzeOutcome("neterr", 0, NoResult), AnalyzeOutcome("config", 0, NoResult),
     AnalyzeOutcome("invalid", 200, NoResult)}
    \cup {AnalyzeOutcome("upstream", c, NoResult) : c \in UpstreamCodes}
    \cup {AnalyzeOutcome("ok", 200, r) : r \in EngineResults}

\* one line of the transcript as analyze-symptoms writes it: "Patient: " or
\* "Assistant: " (here "P:" and "A:") before the content
TranscriptLine(m) ==
    <<IF m.role = "user" THEN "P" ELSE "A", ":">> \o m.content

RECURSIVE JoinLines(_)
JoinLines(ms) ==
    IF ms = <<>> THEN <<>>
    ELSE IF Len(ms) = 1 THEN TranscriptLine(ms[1])
    ELSE TranscriptLine(ms[1]) \o <<"\n">> \o JoinLines(Tail(ms))

\* symptomsText of analyze-symptoms: the symptoms string when it is given
\* and not empty, else the joined conversationHistory (history_) when one is given
\* (<<>>: the field is missing; <<h>>: it is the array h), else nothing
SymptomsTextOf(symptoms, history_) ==
    IF symptoms # <<>> THEN symptoms
    ELSE IF history_ # <<>> THEN JoinLines(history_[1])
    ELSE <<>>

\* a handler that fetches the profile and the history before it looks at its
\* input, against which the place of the validation is tested
AnalyzeSymptomsReadsFirst(symptomsText, o) ==
    IF symptomsText = <<>> THEN [status |-> 400, body |-> NoResult, engine |-> 0, reads |-> TRUE]
    ELSE IF o.kind = "config" THEN [status |-> 500, body |-> NoResult, engine |-> 0, reads |-> TRUE]
    ELSE IF o.kind = "upstream"
         THEN [status |-> IF o.code \in {429, 402} THEN o.code ELSE 500,
               body |-> NoResult, engine |-> 1, reads |-> TRUE]
    ELSE IF o.kind = "invalid" THEN [status |-> 500, body |-> NoResult, engine |-> 1, reads |-> TRUE]
    ELSE [status |-> 200, body |-> o.result, engine |-> 1, reads |-> TRUE]

\* analyze-symptoms handler: status and body of its response, and whether it
\* called the reasoning engine
AnalyzeSymptoms(symptomsText, o) ==
    IF symptomsText = <<>> THEN [status |-> 400, body |-> NoResult, engine |-> 0, reads |-> FALSE]
    ELSE IF o.kind = "config" THEN [status |-> 500, body |-> NoResult, engine |-> 0, reads |-> FALSE]
    ELSE IF o.kind = "upstream"
         THEN [status |-> IF o.code \in {429, 402} THEN o.code ELSE 500,
               body |-> NoResult, engine |-> 1, reads |-> TRUE]
    ELSE IF o.kind = "invalid" THEN [status |-> 500, body |-> NoResult, engine |-> 1, reads |-> TRUE]
    ELSE [status |-> 200, body |-> o.result, engine |-> 1, reads |-> TRUE]

\* the request of one analysis handler as Exchange records it
AnalysisExchange(h, ctx, ms, arguments, content, resp) ==
    [Exchange(h, ctx, ms, content, resp, NoBody) EXCEPT
        !.arguments = arguments,
        !.result = IF ResponseOk(resp.status) THEN <<resp.body>> ELSE <<>>]

\* the arguments of the analyze_symptoms tool call in the engine's reply, as
\* JSON.parse returns them (<<>>: no such tool call, or no parsable arguments)
ToolArguments(o) == IF o.kind = "ok" THEN <<o.result>> ELSE <<>>

\* -------------------------------------------------------------------- Init
\* a row an earlier visit of uid left in the table
EarlierRow(n, uid) ==
    [id |-> n, user_id |-> uid, symptoms |-> <<"a">>,
     possible_conditions |-> Result("Non-urgent").possibleConditions,
     recommendations |-> Result("Non-urgent").recommendations,
     urgency_level |-> "Non-urgent",
     created_at |-> n, is_cured |-> SqlFalse, cured_at |-> NullTime]

\* how many entries earlier visits may have left
EarlierVisits == {0, 1}

InitialStores(uid) ==
    IF uid = NoUser THEN {{}}
    ELSE {{EarlierRow(n, uid) : n \in 1..m} : m \in EarlierVisits}

FetchOp == [kind |-> "fetch", id |-> NoId, newStatus |-> FALSE, ts |-> NullTime,
            phase |-> "sent", data |-> <<>>]

\* who may be using the page: a visitor, or a signed-in user
Users == {NoUser, "u1"}

\* the profile a signed-in user filled in
ProfileRow(uid, age) ==
    [user_id |-> uid, full_name |-> uid, age |-> age, health_issues |-> <<>>]
Registered == {ProfileRow("u1", 30)}

\* the state after the page has mounted, over a symptom_history table holding
\* one of stores[user] and a profiles table holding one of tables
StartWith(stores, tables) ==
    /\ messages = <<>> /\ isLoading = FALSE /\ hasStarted = FALSE
    /\ req = <<>> /\ timers = <<>>
    /\ isAnalyzing = FALSE /\ analysisResult = <<>>
    /\ conversationHistory = <<>> /\ analyses = <<>>
    /\ user \in Users
    /\ store \in stores[user]
    /\ profiles \in tables
    /\ nextId = Cardinality(store) + 1
    /\ now = 1
    /\ history = <<>> /\ loading = TRUE
    /\ togglingCuredId = NoId /\ deletingId = NoId
    /\ ops = IF user = NoUser THEN <<>> ELSE <<FetchOp>>
    /\ exchange = NoExchange /\ written = NoWrite /\ toast = NoToast
    /\ engineCalls = 0 /\ rejected = 0
    /\ sentCount = 0 /\ handoffs = 0
    /\ selectedFile = <<>> /\ reportAnalysis = <<>>

\* the fetchHistory request of historyRef.current.refresh(), marked with the
\* id of the row whose insert it follows
RefreshOp(newId) == [FetchOp EXCEPT !.id = newId]

Start(stores) == StartWith(stores, {Registered})

Init == Start([uid \in Users |-> InitialStores(uid)])

\* ------------------------------------------------------------- SymptomChat
\* sendMessage up to its first await; the form is disabled while isLoading or
\* isAnalyzing
SendMessage(userMessage) ==
    /\ Trim(userMessage) # <<>>
    /\ ~isLoading
    /\ ~isAnalyzing
    /\ LET updatedMessages == Append(messages, UserMsg(userMessage))
       IN /\ messages' = updatedMessages
          /\ req' = <<updatedMessages>>
    /\ isLoading' = TRUE
    /\ hasStarted' = TRUE
    /\ sentCount' = sentCount + 1
    /\ exchange' = NoExchange /\ written' = NoWrite /\ toast' = NoToast
    /\ UNCHANGED <<timers, homeVars, user, profiles, reportVars, storeVars, viewVars, engineCalls,
                   rejected, handoffs>>

\* handleConversationComplete up to its first await
StartAssessment(msgs) ==
    /\ conversationHistory' = msgs
    /\ isAnalyzing' = TRUE
    /\ analysisResult' = <<>>
    /\ analyses' = Append(analyses, [messages |-> msgs, pc |-> "analyze",
                                     result |-> NoResult])
    /\ handoffs' = handoffs + 1

\* a response handling whose error message takes the place of the user's
\* message, against which the growth of the transcript is tested
AfterReplyStale(updatedMessages, resp, o) ==
    IF o.kind = "neterr" \/ ~ResponseOk(resp.status)
    THEN Append(SubSeq(updatedMessages, 1, Len(updatedMessages) - 1),
                AssistantMsg(ErrorText))
    ELSE IF resp.body.isComplete
         THEN IF Trim(resp.body.question) # <<>>
              THEN Append(updatedMessages, AssistantMsg(resp.body.question))
              ELSE messages
         ELSE Append(updatedMessages, AssistantMsg(resp.body.question))

\* a response handling that appends the final message even when it is empty,
\* against which the completion branch is tested
AfterReplyAlwaysAppends(updatedMessages, resp, o) ==
    IF o.kind = "neterr" \/ ~ResponseOk(resp.status)
    THEN Append(updatedMessages, AssistantMsg(ErrorText))
    ELSE Append(updatedMessages, AssistantMsg(resp.body.question))

\* a response handling that shows nothing for a failed call, against which
\* the inline error message is tested
AfterReplySilent(updatedMessages, resp, o) ==
    IF o.kind = "neterr" \/ ~ResponseOk(resp.status)
    THEN updatedMessages
    ELSE IF resp.body.isComplete
         THEN IF Trim(resp.body.question) # <<>>
              THEN Append(updatedMessages, AssistantMsg(resp.body.question))
              ELSE messages
         ELSE Append(updatedMessages, AssistantMsg(resp.body.question))

\* what sendMessage does with the response, as the new transcript; the
\* hand-off itself is in FollowupReply
AfterReply(updatedMessages, resp, o) ==
    IF o.kind = "neterr" \/ ~ResponseOk(resp.status)
    THEN Append(updatedMessages, AssistantMsg(ErrorText))
    ELSE IF resp.body.isComplete
         THEN IF Trim(resp.body.question) # <<>>
              THEN Append(updatedMessages, AssistantMsg(resp.body.question))
              ELSE messages
         ELSE Append(updatedMessages, AssistantMsg(resp.body.question))

\* the rest of sendMessage: the handler runs, the response (or the failure)
\* arrives and is handled, finally isLoading is cleared
FollowupReply(o, readOk) ==
    /\ req # <<>>
    /\ LET updatedMessages == req[1]
           resp == SymptomFollowup(updatedMessages, o)
           reached == o.kind # "neterr"
           completes == reached /\ ResponseOk(resp.status) /\ resp.body.isComplete
           direct == completes /\ Trim(resp.body.question) = <<>>
       IN /\ messages' = AfterReply(updatedMessages, resp, o)
          /\ IF reached /\ resp.engine > 0
             THEN /\ engineCalls' = engineCalls + resp.engine
                  /\ exchange' =
                        Exchange("symptom-followup",
                                 FollowupContext(FetchProfile(profiles, user, readOk),
                                                 FetchForFollowup(store, user, readOk)),
                                 updatedMessages, o.content, Reading(resp, user),
                                 resp.body)
                  /\ rejected' = rejected
             ELSE /\ rejected' = rejected + 1
                  /\ exchange' = NoExchange
                  /\ engineCalls' = engineCalls
          /\ IF direct
             THEN StartAssessment(updatedMessages)
             ELSE UNCHANGED <<homeVars, handoffs>>
          /\ timers' = IF completes /\ ~direct
                       THEN Append(timers, messages')
                       ELSE timers
    /\ isLoading' = FALSE
    /\ req' = <<>>
    /\ written' = NoWrite /\ toast' = NoToast
    /\ UNCHANGED <<hasStarted, user, profiles, reportVars, storeVars, viewVars, sentCount>>

\* the 1000 ms timer of the completion branch fires
TimerFire ==
    /\ timers # <<>>
    /\ StartAssessment(Head(timers))
    /\ timers' = Tail(timers)
    /\ exchange' = NoExchange /\ written' = NoWrite /\ toast' = NoToast
    /\ UNCHANGED <<messages, isLoading, hasStarted, req, user, profiles, reportVars, storeVars,
                   viewVars, engineCalls, rejected, sentCount>>

\* -------------------------------------------------------------------- Home
RemoveAt(s, i) == SubSeq(s, 1, i - 1) \o SubSeq(s, i + 1, Len(s))

\* the clock reading of a step: time stands still or moves on
ClockReads(t) == t \in {now, now + 1}

\* handleConversationComplete after analyzeSymptomsFromConversation settles
AnalyzeReply(i, o, readOk) ==
    /\ i \in DOMAIN analyses
    /\ analyses[i].pc = "analyze"
    /\ LET a == analyses[i]
           resp == AnalyzeSymptoms(SymptomsTextOf(<<>>, <<a.messages>>), o)
           reached == o.kind # "neterr"
           success == reached /\ ResponseOk(resp.status)
       IN /\ exchange' =
                IF reached /\ resp.engine = 1
                THEN AnalysisExchange("analyze-symptoms",
                                      AssessContext(FetchProfile(profiles, user, readOk),
                                                    FetchForAssess(store, user, readOk)),
                                      a.messages, ToolArguments(o), <<>>,
                                      Reading(resp, user))
                ELSE NoExchange
          /\ analysisResult' = IF success THEN <<resp.body>> ELSE analysisResult
          /\ IF success /\ user # NoUser
             THEN /\ analyses' = [analyses EXCEPT ![i] =
                                     [a EXCEPT !.pc = "insert", !.result = resp.body]]
                  /\ isAnalyzing' = isAnalyzing
                  /\ toast' = NoToast
             ELSE /\ analyses' = RemoveAt(analyses, i)
                  /\ isAnalyzing' = FALSE
                  /\ toast' = IF success THEN AnalysisComplete ELSE AnalysisFailed
    /\ written' = NoWrite
    /\ UNCHANGED <<chatVars, conversationHistory, user, profiles, reportVars, storeVars, viewVars,
                   engineCalls, rejected, sentCount, handoffs>>

\* the row the insert of handleConversationComplete creates
NewRow(a) ==
    [id |-> nextId, user_id |-> user, symptoms |-> SymptomsText(a.messages),
     possible_conditions |-> a.result.possibleConditions,
     recommendations |-> a.result.recommendations,
     urgency_level |-> a.result.urgencyLevel,
     created_at |-> nextId, is_cured |-> SqlFalse, cured_at |-> NullTime]

\* a continuation that takes a failed insert for a failed assessment, against
\* which the independence of the displayed result is tested
InsertReplyClears(i, ok) ==
    /\ i \in DOMAIN analyses
    /\ analyses[i].pc = "insert"
    /\ IF ok
       THEN /\ store' = store \cup {NewRow(analyses[i])}
            /\ nextId' = nextId + 1
            /\ now' = now
            /\ loading' = TRUE
            /\ ops' = Append(ops, RefreshOp(nextId))
            /\ written' = Write("insert", <<>>, <<NewRow(analyses[i])>>)
            /\ analysisResult' = analysisResult
            /\ toast' = AnalysisComplete
       ELSE /\ UNCHANGED <<storeVars, loading, ops>>
            /\ written' = NoWrite
            /\ analysisResult' = <<>>
            /\ toast' = AnalysisFailed
    /\ analyses' = RemoveAt(analyses, i)
    /\ isAnalyzing' = FALSE
    /\ UNCHANGED <<chatVars, conversationHistory, user, profiles, reportVars, history,
                   togglingCuredId, deletingId, countVars>>
    /\ exchange' = NoExchange

\* handleConversationComplete after the insert settles: on success the history
\* view is refreshed (fetchHistory starts); finally isAnalyzing is cleared
InsertReply(i, ok) ==
    /\ i \in DOMAIN analyses
    /\ analyses[i].pc = "insert"
    /\ IF ok
       THEN /\ store' = store \cup {NewRow(analyses[i])}
            /\ nextId' = nextId + 1
            /\ now' = now
            /\ loading' = TRUE
            /\ ops' = Append(ops, RefreshOp(nextId))
            /\ written' = Write("insert", <<>>, <<NewRow(analyses[i])>>)
       ELSE /\ UNCHANGED <<storeVars, loading, ops>>
            /\ written' = NoWrite
    /\ analyses' = RemoveAt(analyses, i)
    /\ isAnalyzing' = FALSE
    /\ toast' = AnalysisComplete
    /\ UNCHANGED <<chatVars, analysisResult, conversationHistory, user, profiles, reportVars, history,
                   togglingCuredId, deletingId, countVars>>
    /\ exchange' = NoExchange

\* ---------------------------------------------------------- SymptomHistory
\* handleToggleCured(entry.id, entry.is_cured) up to its await; the button of
\* the entry whose id is togglingCuredId is disabled
HandleToggleCured(k, t) ==
    /\ user # NoUser
    /\ ~loading
    /\ k \in DOMAIN history
    /\ togglingCuredId # history[k].id
    /\ ClockReads(t)
    /\ LET newStatus == ~history[k].is_cured
       IN ops' = Append(ops, [kind |-> "toggle", id |-> history[k].id,
                              newStatus |-> newStatus,
                              ts |-> IF newStatus THEN t ELSE NullTime,
                              phase |-> "sent", data |-> <<>>])
    /\ togglingCuredId' = history[k].id
    /\ now' = t
    /\ UNCHANGED <<chatVars, homeVars, user, profiles, reportVars, store, nextId, history, loading,
                   deletingId, countVars>>
    /\ exchange' = NoExchange /\ written' = NoWrite /\ toast' = NoToast

\* handleDelete(entry.id) up to its await
HandleDelete(k) ==
    /\ user # NoUser
    /\ ~loading
    /\ k \in DOMAIN history
    /\ deletingId # history[k].id
    /\ ops' = Append(ops, [kind |-> "delete", id |-> history[k].id,
                           newStatus |-> FALSE, ts |-> NullTime,
                           phase |-> "sent", data |-> <<>>])
    /\ deletingId' = history[k].id
    /\ UNCHANGED <<chatVars, homeVars, user, profiles, reportVars, storeVars, history, loading,
                   togglingCuredId, countVars>>
    /\ exchange' = NoExchange /\ written' = NoWrite /\ toast' = NoToast

\* an update that writes the status and leaves the timestamp, against which
\* the pairing of the two columns is tested
UpdateCuredStatusOnly(rows, id, newStatus, ts) ==
    {IF r.id = id
     THEN [r EXCEPT !.is_cured = ToSql(newStatus)]
     ELSE r : r \in rows}

\* an update that creates the row when none has the id, against which the
\* update after a delete is tested
UpdateCuredUpserts(rows, id, newStatus, ts) ==
    IF \E r \in rows : r.id = id
    THEN {IF r.id = id
          THEN [r EXCEPT !.is_cured = ToSql(newStatus), !.cured_at = ts]
          ELSE r : r \in rows}
    ELSE rows \cup {[id |-> id, user_id |-> "u1", symptoms |-> <<>>,
                     possible_conditions |-> <<>>, recommendations |-> <<>>,
                     urgency_level |-> "", created_at |-> id,
                     is_cured |-> ToSql(newStatus), cured_at |-> ts]}

\* .update({is_cured, cured_at}).eq('id', id)
UpdateCured(rows, id, newStatus, ts) ==
    {IF r.id = id
     THEN [r EXCEPT !.is_cured = ToSql(newStatus), !.cured_at = ts]
     ELSE r : r \in rows}

\* .delete().eq('id', id)
DeleteRow(rows, id) == {r \in rows : r.id # id}

\* what the table does with one request of the view
Served(rows, op) ==
    IF op.kind = "toggle" THEN UpdateCured(rows, op.id, op.newStatus, op.ts)
    ELSE IF op.kind = "delete" THEN DeleteRow(rows, op.id)
    ELSE rows

\* One request of the view reaches the table, or fails.  "ok": served and
\* answered; "error": refused; "lost": served, but the answer does not arrive
\* and the client sees an error; "norows": an update that row level security
\* lets touch no row, answered without an error (the table's policies at hand
\* cover SELECT, INSERT and DELETE; whether one covers UPDATE is open).
DbOutcomes == {"ok", "error", "lost", "norows"}
Applied(outcome) == outcome \in {"ok", "lost"}
Answered(outcome) == outcome \in {"ok", "norows"}

DbStep(j, outcome) ==
    /\ j \in DOMAIN ops
    /\ ops[j].phase = "sent"
    /\ outcome = "norows" => ops[j].kind = "toggle"
    /\ LET op == ops[j]
       IN /\ ops' = [ops EXCEPT
                       ![j].phase = IF Answered(outcome) THEN "ok" ELSE "error",
                       ![j].data = IF outcome = "ok" /\ op.kind = "fetch"
                                   THEN ListRecent(store, user, HistoryLimit)
                                   ELSE <<>>]
          /\ store' = IF Applied(outcome) THEN Served(store, op) ELSE store
          /\ written' = IF ~Applied(outcome) \/ op.kind = "fetch" THEN NoWrite
                        ELSE Write(op.kind, RowsWithId(store, op.id),
                                   RowsWithId(store', op.id))
    /\ UNCHANGED <<chatVars, homeVars, user, profiles, reportVars, nextId, now, history, loading,
                   togglingCuredId, deletingId, countVars>>
    /\ exchange' = NoExchange /\ toast' = NoToast

\* the mapping fetchHistory applies to each fetched row
ViewRow(item) ==
    [item EXCEPT !.is_cured = Truthy(item.is_cured)]

\* setHistory(prev => prev.map(...)) of handleToggleCured
MarkCured(prev, id, newStatus, t) ==
    [n \in DOMAIN prev |->
        IF prev[n].id = id
        THEN [prev[n] EXCEPT !.is_cured = newStatus,
                             !.cured_at = IF newStatus THEN t ELSE NullTime]
        ELSE prev[n]]

\* setHistory(prev => prev.filter(h => h.id !== id)) of handleDelete
RECURSIVE WithoutId(_, _)
WithoutId(prev, id) ==
    IF prev = <<>> THEN <<>>
    ELSE IF Head(prev).id # id
         THEN <<Head(prev)>> \o WithoutId(Tail(prev), id)
         ELSE WithoutId(Tail(prev), id)

\* notifications that report success whatever the answer was, against which
\* the surfacing of a failure is tested
ClientToastSilent(op) ==
    IF op.kind = "fetch" THEN NoToast
    ELSE IF op.kind = "toggle"
    THEN IF op.newStatus THEN MarkedCured ELSE MarkedNotCured
    ELSE EntryDeleted

\* the notification that continuation shows
ClientToast(op) ==
    IF op.kind = "fetch"
    THEN IF op.phase = "ok" THEN NoToast ELSE LoadFailed
    ELSE IF op.kind = "toggle"
    THEN IF op.phase # "ok" THEN UpdateFailed
         ELSE IF op.newStatus THEN MarkedCured ELSE MarkedNotCured
    ELSE IF op.phase = "ok" THEN EntryDeleted ELSE DeleteFailed

\* the continuation of fetchHistory, handleToggleCured or handleDelete
ClientStep(j, t) ==
    /\ j \in DOMAIN ops
    /\ ops[j].phase \in {"ok", "error"}
    /\ ClockReads(t)
    /\ LET op == ops[j]
           good == op.phase = "ok"
       IN /\ history' =
                IF ~good THEN history
                ELSE IF op.kind = "fetch" THEN [i \in DOMAIN op.data |-> ViewRow(op.data[i])]
                ELSE IF op.kind = "toggle"
                     THEN MarkCured(history, op.id, op.newStatus, t)
                ELSE WithoutId(history, op.id)
          /\ loading' = IF op.kind = "fetch" THEN FALSE ELSE loading
          /\ togglingCuredId' = IF op.kind = "toggle" THEN NoId ELSE togglingCuredId
          /\ deletingId' = IF op.kind = "delete" THEN NoId ELSE deletingId
          /\ now' = IF good /\ op.kind = "toggle" /\ op.newStatus THEN t ELSE now
          /\ toast' = ClientToast(op)
    /\ ops' = RemoveAt(ops, j)
    /\ exchange' = NoExchange /\ written' = NoWrite
    /\ UNCHANGED <<chatVars, homeVars, user, profiles, reportVars, store, nextId, countVars>>

\* ----------------------------------------------------------- another session
\* The same user has the page open in another tab. Its handleToggleCured or
\* handleDelete sends the same statements; what this session shares with it is
\* the table, so its request is one step: the moment the table serves it.
OtherRequest(k, id, newStatus, t) ==
    [kind |-> k, id |-> id, newStatus |-> newStatus,
     ts |-> IF newStatus THEN t ELSE NullTime, phase |-> "sent", data |-> <<>>]

OtherSessionStep(op) ==
    /\ user # NoUser
    /\ store' = Served(store, op)
    /\ written' = Write(op.kind, RowsWithId(store, op.id), RowsWithId(store', op.id))
    /\ exchange' = NoExchange /\ toast' = NoToast
    /\ UNCHANGED <<chatVars, homeVars, user, profiles, reportVars, nextId, now, viewVars, countVars>>

\* ------------------------------------------------------------ ReportUpload
\* a file the user drops or picks: its declared type and its size in bytes
File(type, size) == [type |-> type, size |-> size]
FileTypes == {"image/png", "application/pdf", ""}
FileSizes == {1, MAX_SIZE, MAX_SIZE + 1}

WrongType == Toast("error", "Please upload an image file (JPG, PNG, WebP, or GIF)")
TooLarge == Toast("error", "File size must be less than 10MB")
ReportAnalyzed == Toast("success", "Report analyzed successfully!")

\* handleFile, reached from handleDrop and handleInputChange
HandleFile(file) ==
    /\ IF file.type \notin ACCEPTED_TYPES
       THEN /\ toast' = WrongType
            /\ selectedFile' = selectedFile
       ELSE IF file.size > MAX_SIZE
       THEN /\ toast' = TooLarge
            /\ selectedFile' = selectedFile
       ELSE /\ selectedFile' = <<file>>
            /\ toast' = NoToast
    /\ exchange' = NoExchange /\ written' = NoWrite
    /\ UNCHANGED <<chatVars, homeVars, user, profiles, storeVars, viewVars, countVars,
                   reportAnalysis>>

\* clearFile
ClearFile ==
    /\ selectedFile # <<>>
    /\ selectedFile' = <<>>
    /\ exchange' = NoExchange /\ written' = NoWrite /\ toast' = NoToast
    /\ UNCHANGED <<chatVars, homeVars, user, profiles, storeVars, viewVars, countVars,
                   reportAnalysis>>

\* What the reasoning engine does to a report request: the arguments of its
\* tool call (<<>>: no tool call; <<t>>: arguments t) and the text content.
ReportOutcome(k, c, args, t) == [kind |-> k, code |-> c, arguments |-> args, content |-> t]

\* JSON.parse over a small JSON: an object is "{", members "k", "}"; any other
\* text throws (<<>>), an object is returned as the list of its members
JsonParse(s) ==
    IF /\ Len(s) >= 2 /\ s[1] = "{" /\ s[Len(s)] = "}"
       /\ \A i \in 2..(Len(s) - 1) : s[i] = "k"
    THEN <<[members |-> SubSeq(s, 2, Len(s) - 1)]>>
    ELSE <<>>

\* content.match(/\{[\s\S]*\}/): from the first "{" to the last "}" after it
MatchBraces(content) ==
    LET opens == {i \in DOMAIN content : content[i] = "{"}
        first == CHOOSE i \in opens : \A j \in opens : i <= j
        closes == {i \in DOMAIN content : content[i] = "}" /\ i > first}
        last == CHOOSE i \in closes : \A j \in closes : i >= j
    IN IF opens = {} THEN <<>>
       ELSE IF closes = {} THEN <<>>
       ELSE <<SubSeq(content, first, last)>>

\* analyze-report, from the engine's reply to the analysis (<<>>: it throws
\* 'Failed to parse analysis response', or JSON.parse of the arguments throws)
ExtractReport(arguments, content) ==
    IF arguments # <<>> /\ arguments[1] # <<>>
    THEN JsonParse(arguments[1])
    ELSE IF content = <<>> THEN <<>>
    ELSE LET jsonMatch == MatchBraces(content)
         IN IF jsonMatch = <<>> THEN <<>> ELSE JsonParse(jsonMatch[1])

NoAnalysis == [members |-> <<>>]

\* analyze-report handler: status, body and error text of its response, and
\* whether it called the reasoning engine; it reads no table
AnalyzeReport(image, o) ==
    IF image = <<>>
    THEN [status |-> 400, body |-> NoAnalysis, engine |-> 0, reads |-> FALSE,
          error |-> "No image/report data provided"]
    ELSE IF o.kind = "config"
    THEN [status |-> 500, body |-> NoAnalysis, engine |-> 0, reads |-> FALSE,
          error |-> "LOVABLE_API_KEY is not configured"]
    ELSE IF o.kind = "upstream"
    THEN IF o.code = 429
         THEN [status |-> 429, body |-> NoAnalysis, engine |-> 1, reads |-> FALSE,
               error |-> "Rate limit exceeded. Please try again in a moment."]
         ELSE IF o.code = 402
         THEN [status |-> 402, body |-> NoAnalysis, engine |-> 1, reads |-> FALSE,
               error |-> "Usage limit reached. Please try again later."]
         ELSE [status |-> 500, body |-> NoAnalysis, engine |-> 1, reads |-> FALSE,
               error |-> "Analysis failed: upstream"]
    ELSE LET analysis == ExtractReport(o.arguments, o.content)
         IN IF analysis = <<>>
            THEN [status |-> 500, body |-> NoAnalysis, engine |-> 1, reads |-> FALSE,
                  error |-> "Failed to parse analysis response"]
            ELSE [status |-> 200, body |-> analysis[1], engine |-> 1, reads |-> FALSE,
                  error |-> ""]

\* the image analyzeReport sends for a file
ImageOf(file) == <<"i">>

\* handleAnalyze, from the click to the end of its finally block: analyzeReport
\* posts the file to analyze-report and throws the error of a failed response;
\* on success Home's handleReportAnalysis displays the analysis
HandleAnalyze(o) ==
    /\ selectedFile # <<>>
    /\ LET image == ImageOf(selectedFile[1])
           resp == AnalyzeReport(image, o)
           reached == o.kind # "neterr"
           success == reached /\ ResponseOk(resp.status)
       IN /\ exchange' = IF reached
                         THEN AnalysisExchange("analyze-report", EmptyContext, image,
                                               o.arguments, o.content, resp)
                         ELSE NoExchange
          /\ reportAnalysis' = IF success THEN <<resp.body>> ELSE reportAnalysis
          /\ toast' = IF success THEN ReportAnalyzed
                      ELSE IF reached THEN Toast("error", resp.error)
                      ELSE Toast("error", "Failed to fetch")
    /\ written' = NoWrite
    /\ UNCHANGED <<chatVars, homeVars, user, profiles, storeVars, viewVars, countVars,
                   selectedFile>>

\* ------------------------------------------------- requests to the handlers
\* The handlers are HTTP endpoints: besides the requests of this page they
\* serve whatever body a caller posts. A request changes nothing on the page.
\* symptom-followup with body {messages, userId}
RequestFollowup(msgs, uid, o, profileOk, readOk) ==
    /\ LET resp == SymptomFollowup(msgs, o)
           ctx == IF resp.reads
                  THEN FollowupContext(FetchProfile(profiles, uid, profileOk),
                                       FetchForFollowup(store, uid, readOk))
                  ELSE EmptyContext
       IN exchange' = Exchange("symptom-followup", ctx, msgs, o.content,
                            Reading(resp, uid), resp.body)
    /\ written' = NoWrite /\ toast' = NoToast
    /\ UNCHANGED <<chatVars, homeVars, user, profiles, storeVars, viewVars, countVars, reportVars>>

\* analyze-symptoms with body {symptoms, conversationHistory, userId}
RequestAnalyze(symptoms, history_, uid, o, profileOk, readOk) ==
    /\ LET resp == AnalyzeSymptoms(SymptomsTextOf(symptoms, history_), o)
           ctx == IF resp.reads
                  THEN AssessContext(FetchProfile(profiles, uid, profileOk),
                                     FetchForAssess(store, uid, readOk))
                  ELSE EmptyContext
       IN exchange' = AnalysisExchange("analyze-symptoms", ctx,
                                       IF history_ = <<>> THEN <<>> ELSE history_[1],
                                       ToolArguments(o), <<>>, Reading(resp, uid))
    /\ written' = NoWrite /\ toast' = NoToast
    /\ UNCHANGED <<chatVars, homeVars, user, profiles, storeVars, viewVars, countVars, reportVars>>

\* analyze-report with body {image, mimeType}
RequestReport(image, o) ==
    /\ exchange' = AnalysisExchange("analyze-report", EmptyContext, image,
                                    o.arguments, o.content, AnalyzeReport(image, o))
    /\ written' = NoWrite /\ toast' = NoToast
    /\ UNCHANGED <<chatVars, homeVars, user, profiles, storeVars, viewVars, countVars, reportVars>>

\* ----------------------------------------------------------- specification
\* The steps of the system in an environment: U the texts the user may submit,
\* FO and AO what may happen to a follow-up and to an assessment request, RO
\* and DO whether the handlers' reads and the requests to the table succeed; turns,
\* rows, clock and nops cap the user's messages, the table, the browser's
\* clock and the view's requests in flight.
DialogueSteps(U, FO, RO, turns) ==
    \/ \E u \in U : UserCount(messages) < turns /\ SendMessage(u)
    \/ \E o \in FO, readOk \in RO : FollowupReply(o, readOk)
    \/ TimerFire

AssessmentSteps(AO, RO, DO, rows) ==
    \/ \E i \in DOMAIN analyses, o \in AO, readOk \in RO : AnalyzeReply(i, o, readOk)
    \/ \E i \in DOMAIN analyses, ok \in DO :
          /\ ok => Cardinality(store) < rows
          /\ InsertReply(i, ok)

ViewSteps(DO, clock, nops) ==
    \/ \E k \in DOMAIN history, t \in 1..clock :
          Len(ops) < nops /\ HandleToggleCured(k, t)
    \/ \E k \in DOMAIN history : Len(ops) < nops /\ HandleDelete(k)
    \/ \E j \in DOMAIN ops, outcome \in DO : DbStep(j, outcome)
    \/ \E j \in DOMAIN ops, t \in 1..clock : ClientStep(j, t)

\* Spec: the whole system, in a narrow environment
NarrowInputs == {<<"a">>, <<" ">>}
NarrowFollowups ==
    {Outcome("upstream", 500, <<>>), Outcome("ok", 200, <<"q">>),
     Outcome("ok", 200, Marker), Outcome("ok", 200, <<"q", " ">> \o Marker)}
NarrowAnalyses ==
    {AnalyzeOutcome("upstream", 500, NoResult),
     AnalyzeOutcome("ok", 200, Result("Non-urgent"))}

Next ==
    \/ DialogueSteps(NarrowInputs, NarrowFollowups, BOOLEAN, MaxTurns)
    \/ AssessmentSteps(NarrowAnalyses, BOOLEAN, BOOLEAN, MaxTurns + 1)
    \/ ViewSteps(DbOutcomes, MaxClock, MaxOps)

Spec == Init /\ [][Next]_vars

\* SpecChat: the dialogue and the assessment in every environment, for a
\* visitor or a signed-in user without earlier entries and without a profile;
\* the history view is left alone
InitChat == StartWith([uid \in Users |-> {{}}], {{}})

NextChat ==
    \/ DialogueSteps(UserInputs, FollowupOutcomes, BOOLEAN, ChatTurns)
    \/ AssessmentSteps(AnalyzeOutcomes, BOOLEAN, BOOLEAN, ChatTurns)

SpecChat == InitChat /\ [][NextChat]_vars

\* SpecHistory: the history view at work around one visit in which the user describes the symptoms once and
\* the engine accepts the description at once
NextHistory ==
    \/ ~hasStarted /\ SendMessage(<<"a">>)
    \/ FollowupReply(Outcome("ok", 200, Marker), TRUE)
    \/ AssessmentSteps({AnalyzeOutcome("ok", 200, Result("Urgent"))}, {TRUE}, BOOLEAN,
                       Cardinality(EarlierVisits))
    \/ ViewSteps(DbOutcomes, MaxClock, MaxOps)

SpecHistory == Init /\ [][NextHistory]_vars

\* SpecCeiling: a long dialogue with an engine that never emits the marker:
\* it asks another question, or the call fails
NeverFinishes == {Outcome("ok", 200, <<"q">>), Outcome("upstream", 500, <<>>)}
Assessed == {AnalyzeOutcome("ok", 200, Result("Non-urgent"))}

NextCeiling ==
    \/ UserCount(messages) < CeilingTurns /\ SendMessage(<<"a">>)
    \/ \E o \in NeverFinishes : FollowupReply(o, TRUE)

SpecCeiling == InitChat /\ [][NextCeiling]_vars

\* SpecStrip: one follow-up request answered with every text of up to
\* MaxReplyLen characters
RECURSIVE Texts(_)
Texts(n) ==
    IF n = 0 THEN {<<>>}
    ELSE LET shorter == Texts(n - 1)
         IN shorter \cup {Append(t, c) : t \in {x \in shorter : Len(x) = n - 1},
                                        c \in Alphabet}
AllReplies == Texts(MaxReplyLen)

NextStrip ==
    \/ ~hasStarted /\ SendMessage(<<"a">>)
    \/ req # <<>> /\ \E r \in AllReplies : FollowupReply(Outcome("ok", 200, r), TRUE)
    \/ TimerFire
    \/ AssessmentSteps(Assessed, {TRUE}, {FALSE}, 0)

SpecStrip == InitChat /\ [][NextStrip]_vars

\* SpecCtx: one follow-up request over every table of up to MaxFetched entries.
\* is_cured is a nullable column: besides the entries this program writes
\* (false on creation, true with a timestamp once toggled) a row may carry NULL.
CuredStates == {SqlTrue, SqlFalse, Null}
StoredRow(n, uid, c) ==
    [EarlierRow(n, uid) EXCEPT !.is_cured = c,
                               !.cured_at = IF c = SqlTrue THEN 1 ELSE NullTime]
CtxStores(uid) ==
    IF uid = NoUser THEN {{}}
    ELSE UNION {{{StoredRow(n, uid, f[n]) : n \in 1..m} : f \in [1..m -> CuredStates]}
                : m \in 0..MaxFetched}

InitCtx == Start([uid \in Users |-> CtxStores(uid)])

NextCtx ==
    \/ ~hasStarted /\ SendMessage(<<"a">>)
    \/ \E readOk \in BOOLEAN : FollowupReply(Outcome("ok", 200, <<"q">>), readOk)

SpecCtx == InitCtx /\ [][NextCtx]_vars

\* SpecInput: valid and invalid input at every entrance: the chat form, the
\* file picker, and the three handlers
PostedMessages == {<<>>, <<UserMsg(<<"a">>)>>}
PostedSymptoms == {<<>>, <<"a">>}
PostedHistories == {<<>>, << <<>> >>, << <<UserMsg(<<"a">>)>> >>}
PostedImages == {<<>>, <<"i">>}
Files == {File(t, n) : t \in FileTypes, n \in FileSizes}
ReportOutcomes ==
    {ReportOutcome("neterr", 0, <<>>, <<>>), ReportOutcome("config", 0, <<>>, <<>>)}
    \cup {ReportOutcome("upstream", c, <<>>, <<>>) : c \in UpstreamCodes}
    \cup {ReportOutcome("ok", 200, <<<<"{", "k", "}">>>>, <<>>),
          ReportOutcome("ok", 200, <<>>, <<"p">>)}

NextInput ==
    \/ \E u \in UserInputs : ~hasStarted /\ SendMessage(u)
    \/ \E o \in NeverFinishes : FollowupReply(o, TRUE)
    \/ \E msgs \in PostedMessages, uid \in Users, o \in NeverFinishes, readOk \in BOOLEAN :
          RequestFollowup(msgs, uid, o, readOk, readOk)
    \/ \E symptoms \in PostedSymptoms, h \in PostedHistories, uid \in Users,
          o \in NarrowAnalyses, readOk \in BOOLEAN :
          RequestAnalyze(symptoms, h, uid, o, readOk, readOk)
    \/ \E image \in PostedImages, o \in ReportOutcomes : RequestReport(image, o)
    \/ \E file \in Files : HandleFile(file)
    \/ ClearFile
    \/ \E o \in ReportOutcomes : HandleAnalyze(o)

SpecInput == Init /\ [][NextInput]_vars

\* SpecExtract: analyze-symptoms asked once for the symptoms "a", over every
\* reply of the engine: a failure, no analyze_symptoms tool call, or a tool
\* call whose arguments carry any of the fields, with values inside and
\* outside the enumerations of the tool's schema
ResultFields == {"possibleConditions", "recommendations", "urgencyLevel"}
Condition(l) == [name |-> "c", description |-> "d", likelihood |-> l]
RepliedConditions == {<<>>, <<Condition("High")>>, <<Condition("Medium"), Condition("Low")>>,
                      <<Condition("Medium"), Condition("Likely")>>}
RepliedUrgencies == {"Emergency", "Urgent", "Non-urgent", "high"}
Arguments(fields, conds, u) ==
    [f \in fields |-> IF f = "possibleConditions" THEN conds
                      ELSE IF f = "recommendations" THEN <<"rest">>
                      ELSE u]
RepliedArguments ==
    {Arguments(fields, conds, u) :
        fields \in SUBSET ResultFields, conds \in RepliedConditions, u \in RepliedUrgencies}
ExtractReplies ==
    {AnalyzeOutcome("invalid", 200, NoResult)}
    \cup {AnalyzeOutcome("upstream", c, NoResult) : c \in UpstreamCodes}
    \cup {AnalyzeOutcome("ok", 200, r) : r \in RepliedArguments}

NextExtract ==
    \E uid \in Users, o \in ExtractReplies :
        RequestAnalyze(<<"a">>, <<>>, uid, o, TRUE, TRUE)

SpecExtract == Init /\ [][NextExtract]_vars

\* SpecReport: one accepted file, analysed over every reply whose text has up
\* to MaxContentLen characters of a small JSON ("{", "}", a member "k") and
\* prose ("p"), with and without a tool call
JsonAlphabet == {"{", "}", "k", "p"}
RECURSIVE JsonTexts(_)
JsonTexts(n) ==
    IF n = 0 THEN {<<>>}
    ELSE LET shorter == JsonTexts(n - 1)
         IN shorter \cup {Append(t, c) : t \in {x \in shorter : Len(x) = n - 1},
                                        c \in JsonAlphabet}
RepliedToolCalls == {<<>>, << <<>> >>, << <<"{", "k", "}">> >>, << <<"p">> >>}
ReportReplies ==
    {ReportOutcome("ok", 200, args, t) :
        args \in RepliedToolCalls, t \in JsonTexts(MaxContentLen)}

NextReport ==
    \/ HandleFile(File("image/png", 1))
    \/ toast = NoToast /\ \E o \in ReportReplies : HandleAnalyze(o)

SpecReport == Init /\ [][NextReport]_vars

\* SpecRefresh: the visit of SpecHistory with every request to the table
\* served, and with room for one toggle or delete next to a fetch in flight
NextRefresh ==
    \/ ~hasStarted /\ SendMessage(<<"a">>)
    \/ FollowupReply(Outcome("ok", 200, Marker), TRUE)
    \/ AssessmentSteps({AnalyzeOutcome("ok", 200, Result("Urgent"))}, {TRUE}, {TRUE},
                       Cardinality(EarlierVisits))
    \/ ViewSteps({"ok"}, RefreshClock, RefreshOps)

SpecRefresh == Init /\ [][NextRefresh]_vars

\* SpecOverlap: a session whose engine closes the dialogue at every turn, with
\* or without a final message, and whose assessments succeed or fail
Closes == {Outcome("ok", 200, <<"q", " ">> \o Marker), Outcome("ok", 200, Marker)}
NextOverlap ==
    \/ DialogueSteps({<<"a">>}, Closes, {TRUE}, OverlapTurns)
    \/ AssessmentSteps(NarrowAnalyses, {TRUE}, {FALSE}, 0)

SpecOverlap == InitChat /\ [][NextOverlap]_vars

\* SpecTabs: the history view next to another session of the same user that
\* toggles and deletes the same entries
OtherRequests ==
    {OtherRequest("toggle", id, newStatus, t) :
        id \in EarlierVisits \ {0}, newStatus \in BOOLEAN, t \in 1..MaxClock}
    \cup {OtherRequest("delete", id, FALSE, NullTime) : id \in EarlierVisits \ {0}}

NextTabs ==
    \/ ViewSteps({"ok", "error", "lost"}, MaxClock, MaxOps)
    \/ \E op \in OtherRequests : OtherSessionStep(op)

SpecTabs == Init /\ [][NextTabs]_vars

\* ------------------------------------------------------------------ claims
\* the session has received a reply with isComplete = true: its hand-off is
\* waiting for the timer, or has been made
Completed == timers # <<>> \/ handoffs > 0

\* C1: every stored history entry, and every entry the view holds, is marked
\* cured exactly when it carries a cured_at timestamp, in every state reached
\* by creating, toggling (also repeatedly to the same status) and deleting
\* entries.
CuredIffCuredAt ==
    /\ \A e \in store : (e.is_cured = SqlTrue) <=> (e.cured_at # NullTime)
    /\ \A k \in DOMAIN history :
          history[k].is_cured <=> (history[k].cured_at # NullTime)

\* an entry of this visit exists, and an entry already cured has just been
\* toggled to cured again, with a later timestamp
RepeatedToggleServed ==
    /\ written.kind = "toggle"
    /\ written.before # <<>>
    /\ written.before[1].is_cured = SqlTrue
    /\ written.after[1].is_cured = SqlTrue
    /\ written.after[1].cured_at # written.before[1].cured_at
    /\ \E e \in store : e.urgency_level = "Urgent"

\* C2: within a session the transcript only grows by appending: in every step
\* the transcript before is a prefix of the transcript after, whatever the
\* outcome of a request (question, completion, failure).
TranscriptOnlyGrows == [][IsPrefix(messages, messages')]_vars

\* a session that was completed and handed off, took another message and saw
\* its request fail
FailureAfterCompletion ==
    /\ handoffs = 1
    /\ Len(messages) = 4
    /\ messages[4] = AssistantMsg(ErrorText)

\* C3: COMPLETE is terminal: once a reply with isComplete = true has been
\* received, no further user message enters the transcript and no further
\* follow-up request is sent, also after the assessment has finished.
CompleteIsTerminal ==
    [][Completed => /\ UserCount(messages') = UserCount(messages)
                    /\ sentCount' = sentCount]_vars

\* C4: whenever the transcript is handed to the extractor, the list handed
\* over is the session's transcript at that moment, also when the hand-off was
\* deferred by the timer.
HandOffIsTranscript ==
    [][handoffs' > handoffs => conversationHistory' = messages']_vars

\* C5: the controller has a hard ceiling of its own: when the user has sent
\* TurnCeiling messages and every one has been answered, the session is
\* COMPLETE, even though the engine never emitted the marker.
CeilingForcesCompletion ==
    (UserCount(messages) >= TurnCeiling /\ req = <<>>) => Completed

\* C6: marker stripping is exact and idempotent: isComplete is true exactly
\* when the reply contains the marker; then the question is the reply without
\* a marker, trimmed, contains no marker itself, so that stripping it again
\* changes nothing, and is empty when the reply is the marker alone; otherwise
\* the question is the reply unchanged.
StripExact ==
    (exchange.handler = "symptom-followup" /\ exchange.status = 200) =>
        LET r == exchange.reply
            q == exchange.question
        IN /\ exchange.isComplete <=> Includes(r, Marker)
           /\ exchange.isComplete =>
                 /\ \E i \in 1..Len(r) :
                       /\ SubSeq(r, i, i + Len(Marker) - 1) = Marker
                       /\ q = Trim(SubSeq(r, 1, i - 1)
                                   \o SubSeq(r, i + Len(Marker), Len(r)))
                 /\ ~Includes(q, Marker)
                 /\ FollowupBody(q).question = q
           /\ r = Marker => q = <<>>
           /\ ~exchange.isComplete => q = r

\* the step in which a reply carrying the marker arrives
CompletionReply ==
    /\ req # <<>>
    /\ exchange'.handler = "symptom-followup"
    /\ exchange'.status = 200
    /\ exchange'.isComplete

\* what such a step, and the step in which the timer fires, do
CompletionStep ==
    /\ CompletionReply =>
          LET sent == req[1]
              final == Append(sent, AssistantMsg(exchange'.question))
          IN /\ sent[Len(sent)].role = "user"
             /\ IF Trim(exchange'.question) # <<>>
                THEN /\ messages' = final
                     /\ timers' = Append(timers, final)
                     /\ handoffs' = handoffs
                ELSE /\ messages' = sent
                     /\ timers' = timers
                     /\ handoffs' = handoffs + 1
                     /\ conversationHistory' = sent
    /\ Len(timers') < Len(timers) =>
          /\ timers' = Tail(timers)
          /\ handoffs' = handoffs + 1
          /\ conversationHistory' = Head(timers)
          /\ messages' = messages

\* C7: a reply that carries the marker appends exactly one final assistant
\* message when its stripped text is non-empty, and nothing when it is empty;
\* the transcript handed to the extractor, at once or when the timer fires,
\* is the one of that request, whose last user message is the one just sent.
CompletionAppendsFinal == [][CompletionStep]_vars

\* a session completed once with a final message and once without
BothCompletions ==
    /\ handoffs = 2
    /\ Len(messages) = 3
    /\ messages[2].role = "assistant"
    /\ exchange.isComplete
    /\ exchange.question = <<>>

\* C8, as stated: every follow-up request that ends has invoked the reasoning
\* engine exactly once.
EveryRequestCallsEngine ==
    [][(req # <<>> /\ req' = <<>>) => engineCalls' = engineCalls + 1]_vars

\* what the step that sends a message, and the step in which its request
\* ends, do to the transcript and to the counts of requests and engine calls
RequestStep ==
    /\ sentCount' # sentCount =>
          /\ sentCount' = sentCount + 1
          /\ req = <<>>
          /\ req' = <<messages'>>
          /\ Len(messages') = Len(messages) + 1
          /\ IsPrefix(messages, messages')
          /\ messages'[Len(messages')].role = "user"
          /\ Trim(messages'[Len(messages')].content) # <<>>
    /\ (req # <<>> /\ req' = <<>>) =>
          /\ req[1] = messages
          /\ sentCount' = sentCount
          /\ (engineCalls' - engineCalls) + (rejected' - rejected) = 1
          /\ engineCalls' >= engineCalls /\ rejected' >= rejected
          /\ engineCalls' > engineCalls => exchange'.transcript = req[1]
          /\ (engineCalls' = engineCalls \/ exchange'.status # 200) =>
                /\ messages' = Append(req[1], AssistantMsg(ErrorText))
                /\ UNCHANGED <<timers, handoffs, isAnalyzing>>
          /\ (exchange'.status = 200 /\ ~exchange'.isComplete) =>
                /\ messages' = Append(req[1], AssistantMsg(exchange'.reply))
                /\ UNCHANGED <<timers, handoffs, isAnalyzing>>
    /\ (req' = req \/ req' # <<>>) => UNCHANGED <<engineCalls, rejected>>

\* C8, amended: each accepted, non-blank user message causes exactly one
\* follow-up request, carrying the full updated transcript; the request calls
\* the reasoning engine at most once, and exactly once unless it fails before
\* the call; nothing is sent again after a failure, which leaves one error
\* message; a reply without the marker is appended as the next assistant
\* message and hands nothing to the extractor.
OneRequestPerMessage == [][RequestStep]_vars

\* the first message's request failed before the engine was called, the second
\* message's request was answered with a question
QuestionAfterRejection ==
    /\ exchange.handler = "symptom-followup"
    /\ exchange.status = 200
    /\ ~exchange.isComplete
    /\ UserCount(messages) = 2
    /\ engineCalls = 1
    /\ rejected = 1

\* how often entry e occurs in block s
Occurrences(s, e) == Cardinality({i \in DOMAIN s : s[i] = e})

\* C9: the follow-up handler's partition of the fetched history is exact and
\* disjoint: every fetched entry is in exactly one of the two blocks, no entry
\* with is_cured true is in the block to consider, and no entry with is_cured
\* false or NULL is in the block not to include.
PartitionExact ==
    exchange.handler = "symptom-followup" =>
        LET c == exchange.context
        IN /\ c.fetched \in {<<>>, FetchForFollowup(store, user, TRUE)}
           /\ \A i \in DOMAIN c.fetched :
                 Occurrences(c.relevant, c.fetched[i])
                     + Occurrences(c.excluded, c.fetched[i]) = 1
           /\ Len(c.relevant) + Len(c.excluded) = Len(c.fetched)
           /\ \A i \in DOMAIN c.relevant : c.relevant[i].is_cured # SqlTrue
           /\ \A i \in DOMAIN c.excluded : c.excluded[i].is_cured = SqlTrue

\* a context assembled from entries of all three kinds: cured, uncured, NULL
AllKindsFetched ==
    /\ exchange.handler = "symptom-followup"
    /\ {exchange.context.fetched[i].is_cured :
            i \in DOMAIN exchange.context.fetched} = CuredStates
    /\ exchange.context.relevant # <<>>
    /\ exchange.context.excluded # <<>>

\* C10: the assessment request applies the same split: no entry that is
\* stored as cured is presented to the engine as prior history to consider.
AssessmentSplitsCured ==
    exchange.handler = "analyze-symptoms" =>
        \A i \in DOMAIN exchange.context.relevant :
            \A e \in store :
                (e.user_id = user
                 /\ e.created_at = exchange.context.relevant[i].created_at)
                    => e.is_cured # SqlTrue

\* C11: toggleCured is idempotent: an update that asks for the status the
\* entry already has leaves the entry as it was, in is_cured and in cured_at.
ToggleIdempotent ==
    (/\ written.kind = "toggle"
     /\ written.before # <<>>
     /\ written.before[1].is_cured = written.after[1].is_cured)
        => written.after = written.before

\* the ids of the entries in a list or set of rows
IdsOf(rows) == {rows[k].id : k \in DOMAIN rows}
StoredIds == {e.id : e \in store}
\* the ids of the entries that were created and are gone from the table
DeletedIds == {n \in 1..(nextId - 1) : n \notin StoredIds}

\* what a step may do with deleted entries: none comes back into the table,
\* none is in the history fetched for an engine request, and none enters the
\* displayed list
DeletedStaysGone ==
    /\ DeletedIds \subseteq DeletedIds'
    /\ \A i \in DOMAIN exchange'.context.fetched :
          \E e \in store' : e.created_at = exchange'.context.fetched[i].created_at
    /\ (IdsOf(history') \cap DeletedIds') \subseteq IdsOf(history)

\* C12: after a successful delete the entry never appears again: not in the
\* table, whatever is requested later (also a toggle from a list that still
\* shows it), not in the context of a later follow-up or assessment request,
\* and not in the displayed list.
DeletedNeverReappears == [][DeletedStaysGone]_vars

RefreshServed(j) ==
    /\ ops[j].kind = "fetch" /\ ops[j].id # NoId /\ ops[j].phase = "sent"
    /\ Len(ops') = Len(ops)
    /\ ops'[j].phase = "ok"

RefreshStep ==
    \A j \in DOMAIN ops :
        RefreshServed(j) =>
            LET data == ops'[j].data
                new == {r \in store : r.id = ops[j].id}
            IN /\ {data[i] : i \in DOMAIN data} = {r \in store : r.user_id = user}
               /\ \A a, b \in DOMAIN data :
                     a < b => data[a].created_at > data[b].created_at
               /\ \A r \in new :
                     /\ data[1] = r
                     /\ r.is_cured = SqlFalse => r.cured_at = NullTime

ResultStep ==
    /\ (exchange'.handler = "analyze-symptoms" /\ exchange'.status = 200) =>
          /\ \E r \in EngineResults : analysisResult' = <<r>>
          /\ toast' # AnalysisFailed
          /\ \A i \in DOMAIN analyses' :
                (i \in DOMAIN analyses /\ analyses'[i].pc = "insert"
                 /\ analyses[i].pc = "analyze")
                    => analysisResult' = <<analyses'[i].result>>
    /\ \A i \in DOMAIN analyses :
          (analyses[i].pc = "insert" /\ analyses' = RemoveAt(analyses, i)) =>
              /\ analysisResult' = analysisResult
              /\ toast' = AnalysisComplete
              /\ (handoffs = 1 => analysisResult' = <<analyses[i].result>>)
    /\ (analysisResult # <<>> /\ analysisResult' = <<>>) => handoffs' = handoffs + 1

FailureStep ==
    \A j \in DOMAIN ops :
        (/\ ops[j].kind \in {"toggle", "delete"}
         /\ ops[j].phase = "error"
         /\ ops' = RemoveAt(ops, j)) =>
            /\ toast' = IF ops[j].kind = "toggle" THEN UpdateFailed ELSE DeleteFailed
            /\ toast'.kind = "error"
            /\ history' = history
            /\ ops[j].kind = "toggle" => togglingCuredId' = NoId
            /\ ops[j].kind = "delete" => deletingId' = NoId

\* C15: when a toggle or delete the user asked for fails in storage, an error
\* is shown, the displayed list stays as it was, and the in-flight marker
\* (togglingCuredId or deletingId) is cleared.
FailureSurfaced == [][FailureStep]_vars

\* a failed toggle has been reported while the list shows an entry
ToggleFailureShown ==
    /\ toast = UpdateFailed
    /\ history # <<>>
    /\ togglingCuredId = NoId

\* the page as a rejected input must leave it
SessionUnchanged ==
    UNCHANGED <<chatVars, homeVars, user, profiles, storeVars, viewVars, countVars, reportVars>>

\* a handler's answer to a request it rejects for its input: status 400, no
\* call of the engine, no read of a table, nothing fetched, no result
RejectedEarly ==
    /\ exchange'.status = 400
    /\ exchange'.engine = 0
    /\ ~exchange'.reads
    /\ exchange'.context = EmptyContext
    /\ exchange'.result = <<>>
    /\ SessionUnchanged

InvalidInputStep ==
    /\ \A u \in UserInputs : Trim(u) = <<>> => ~SendMessage(u)
    /\ \A uid \in Users, o \in NeverFinishes, readOk \in BOOLEAN :
          RequestFollowup(<<>>, uid, o, readOk, readOk) => RejectedEarly
    /\ \A h \in {<<>>, << <<>> >>}, uid \in Users, o \in NarrowAnalyses, readOk \in BOOLEAN :
          RequestAnalyze(<<>>, h, uid, o, readOk, readOk) => RejectedEarly
    /\ \A o \in ReportOutcomes : RequestReport(<<>>, o) => RejectedEarly
    /\ selectedFile = <<>> => \A o \in ReportOutcomes : ~HandleAnalyze(o)
    /\ \A file \in Files :
          (HandleFile(file) /\ (file.type \notin ACCEPTED_TYPES \/ file.size > MAX_SIZE))
              => /\ toast'.kind = "error"
                 /\ exchange' = NoExchange
                 /\ SessionUnchanged

\* C16: invalid input is rejected before any external call: a blank message
\* is never sent; a request with no messages, with neither symptoms nor a
\* conversation, or with no image is answered 400 with no engine call and no
\* read of a table; a file of a type outside the accepted ones or larger than
\* 10 MB is refused with an error notification; and none of them changes the
\* state of the page.
InvalidInputRejected == [][InvalidInputStep]_vars

\* over a table that holds an entry, analyze-symptoms has just refused a
\* request that carried neither symptoms nor a conversation
EmptyRequestRefused ==
    /\ exchange.handler = "analyze-symptoms"
    /\ exchange.status = 400
    /\ exchange.transcript = <<>>
    /\ store # {}

\* the error the user is shown for the request of the last step: the message
\* sendMessage appended to the transcript, or the notification of
\* handleConversationComplete and handleAnalyze
ShownError ==
    IF exchange.handler = "symptom-followup"
    THEN messages[Len(messages)].content
    ELSE toast.text

\* C17: in the follow-up dialogue, the symptom assessment and the report
\* analysis, the error the user is shown after an upstream 429 differs from
\* the one shown after an upstream 402, and both differ from the error shown
\* for any other failure of the request.
UpstreamClassesDistinct ==
    /\ (exchange.handler = "symptom-followup" /\ exchange.status \in {429, 402})
          => ShownError # ErrorText
    /\ (exchange.handler = "analyze-symptoms" /\ exchange.status \in {429, 402})
          => toast # AnalysisFailed
    /\ (exchange.handler = "analyze-report" /\ exchange.status \in {429, 402})
          => ShownError \notin {"Failed to parse analysis response",
                                "Analysis failed: upstream", "Failed to fetch"}

\* a step in which an assessment attempt ends in failure
AttemptFails == toast' = AnalysisFailed

\* C18: extraction is all-or-nothing: the displayed result is absent or is
\* the object a successful extraction returned; when an assessment attempt
\* fails, in the engine or in the extraction, the displayed result is absent
\* (no earlier result remains displayed) and no history entry is created.
FailedAttemptStep ==
    /\ AttemptFails => /\ analysisResult' = <<>>
                       /\ store' = store
                       /\ written' = NoWrite
    /\ \A k \in DOMAIN analysisResult' :
          analysisResult'[k] \in {o.result : o \in {x \in AnalyzeOutcomes : x.kind = "ok"}}
AllOrNothing == [][FailedAttemptStep]_vars

\* AnalysisResult: all three fields, urgencyLevel and every likelihood inside
\* their enumerations
UrgencyLevels == {"Emergency", "Urgent", "Non-urgent"}
Likelihoods == {"High", "Medium", "Low"}
IsAnalysisResult(r) ==
    /\ ResultFields \subseteq DOMAIN r
    /\ r.urgencyLevel \in UrgencyLevels
    /\ \A i \in DOMAIN r.possibleConditions :
          r.possibleConditions[i].likelihood \in Likelihoods

\* C19: for every reply of the engine, analyze-symptoms answers either with a
\* result that has possibleConditions, recommendations and urgencyLevel, the
\* urgency level and every likelihood inside their enumerations, or with a
\* failure; a reply without the tool call, without a field or with a value
\* outside an enumeration is never answered as a success.
ExtractorValidates ==
    exchange.handler = "analyze-symptoms" =>
        /\ exchange.status = 200 =>
              /\ exchange.result # <<>>
              /\ IsAnalysisResult(exchange.result[1])
        /\ exchange.arguments = <<>> => exchange.status # 200

\* the JSON objects that stand somewhere in text t, parsed
ObjectsIn(t) ==
    {JsonParse(SubSeq(t, i, j))[1] :
        <<i, j>> \in {p \in (DOMAIN t) \X (DOMAIN t) :
                        JsonParse(SubSeq(t, p[1], p[2])) # <<>>}}

\* the reply of the last step carried a tool call with arguments
HasArguments == exchange.arguments # <<>> /\ exchange.arguments[1] # <<>>

\* C20: report extraction: with a tool call that has arguments the answer is
\* the parsed arguments, whatever the text; with no tool call and a JSON
\* object somewhere in the text the answer is that object, parsed; with no
\* tool call and no JSON object in the text the handler fails and returns no
\* analysis.
ReportExtraction ==
    (exchange.handler = "analyze-report" /\ exchange.engine = 1) =>
        /\ HasArguments => exchange.result = JsonParse(exchange.arguments[1])
        /\ (~HasArguments /\ ObjectsIn(exchange.reply) # {})
              => /\ exchange.status = 200
                 /\ exchange.result # <<>>
                 /\ exchange.result[1] \in ObjectsIn(exchange.reply)
        /\ (~HasArguments /\ ObjectsIn(exchange.reply) = {})
              => /\ exchange.status # 200
                 /\ exchange.result = <<>>

\* the step in which a follow-up call ends in failure: the request is not
\* answered, or is answered with a status outside 2xx
FollowupFails == req # <<>> /\ req' = <<>> /\ exchange'.status # 200

FailedFollowupStep ==
    FollowupFails =>
        /\ messages' = Append(messages, AssistantMsg(ErrorText))
        /\ messages = req[1]
        /\ handoffs' = handoffs
        /\ timers' = timers
        /\ UNCHANGED <<isAnalyzing, analysisResult, conversationHistory, analyses>>
        /\ hasStarted'
        /\ isLoading /\ ~isLoading'

\* C21: a failed follow-up call appends exactly one inline assistant error
\* message to the transcript, keeps every earlier message, calls onComplete
\* neither at once nor by a timer, and ends with isLoading = false.
FailureKeepsSession == [][FailedFollowupStep]_vars

\* in mid-conversation (the engine has asked a question and the user has
\* answered it) the call has just failed with an upstream error, and the form
\* accepts another message
MidConversationFailure ==
    /\ Len(messages) = 4
    /\ messages[2] = AssistantMsg(<<"q">>)
    /\ messages[4] = AssistantMsg(ErrorText)
    /\ exchange.status = 429
    /\ ~isLoading /\ ~isAnalyzing
    /\ ENABLED SendMessage(<<"a">>)

\* an assessment request of the session is outstanding
AssessmentOutstanding == \E i \in DOMAIN analyses : analyses[i].pc = "analyze"

\* a follow-up request is issued in this step
FollowupIssued == sentCount' > sentCount

IssueStep ==
    FollowupIssued => /\ req = <<>>
                      /\ Len(req') = 1
                      /\ ~AssessmentOutstanding

\* C22: a session has at most one follow-up request outstanding at any
\* moment, and no follow-up request is issued while an assessment request of
\* the session is outstanding.
SingleOutstanding == [][IssueStep]_vars

\* what the table must hold after the update or delete `op` has been applied
\* to it: the update sets both columns of the rows with the id and nothing
\* else, and touches nothing when no row has the id; the delete removes them
AfterApplying(rows, op) ==
    LET hit == {r \in rows : r.id = op.id}
    IN IF op.kind = "delete" THEN rows \ hit
       ELSE (rows \ hit)
            \cup {[r EXCEPT !.is_cured = ToSql(op.newStatus), !.cured_at = op.ts] : r \in hit}

LastWriteStep ==
    /\ \A op \in OtherRequests :
          OtherSessionStep(op) => store' = AfterApplying(store, op)
    /\ \A j \in DOMAIN ops, outcome \in {"ok", "lost"} :
          (ops[j].kind # "fetch" /\ DbStep(j, outcome))
              => store' = AfterApplying(store, ops[j])
    /\ written' = NoWrite => store' = store
    /\ IdsOf(SortDesc(store')) \subseteq IdsOf(SortDesc(store))
    /\ \A e \in store' : (e.is_cured = SqlTrue) <=> (e.cured_at # NullTime)

\* C23: when two sessions interleave toggles and deletes of the same entry,
\* the table holds what the last applied statement wrote: an update sets
\* is_cured and cured_at together, so no row mixes the status of one update
\* with the timestamp of another, and an update applied after a delete
\* creates no row.
LastWriteWins == [][LastWriteStep]_vars

\* this session's toggle of an entry has just been applied after another
\* session deleted the entry: it touched no row
UpdateAfterDelete ==
    /\ written.kind = "toggle"
    /\ written.before = <<>>
    /\ \E j \in DOMAIN ops : ops[j].kind = "toggle" /\ ops[j].phase # "sent"
    /\ store = {}

\* ---------------------------------------------------------------------------
\* SpecAccess: the tables hold the rows of two accounts, u1 and u2, whoever is
\* using the page; the handlers serve the bodies a caller posts, naming any
\* userId, next to the history view of the caller's own session
Accounts == {"u1", "u2"}
AccountRows == {EarlierRow(1, "u1"), EarlierRow(2, "u2")}
AccountProfiles == {ProfileRow("u1", 30), ProfileRow("u2", 70)}

InitAccess == StartWith([uid \in Users |-> {AccountRows}], {AccountProfiles})

NextAccess ==
    \/ \E uid \in Accounts \cup {NoUser}, o \in NeverFinishes,
          profileOk \in BOOLEAN, readOk \in BOOLEAN :
          RequestFollowup(<<UserMsg(<<"a">>)>>, uid, o, profileOk, readOk)
    \/ \E uid \in Accounts \cup {NoUser}, o \in NarrowAnalyses,
          profileOk \in BOOLEAN, readOk \in BOOLEAN :
          RequestAnalyze(<<"a">>, <<>>, uid, o, profileOk, readOk)
    \/ ViewSteps({"ok", "error", "norows"}, MaxClock, MaxOps)

SpecAccess == InitAccess /\ [][NextAccess]_vars

\* C24: every read, update and delete made on behalf of the caller (the
\* session's user) touches only rows whose user_id is the caller's: each
\* profile and each history entry a handler put into its context bundle is a
\* row of the caller, whatever userId the request named, and each row a
\* statement of the view changed or fetched is a row of the caller.
OwnedBy(rows, uid) == {r \in rows : r.user_id = uid}
ContextOfCaller(c) ==
    /\ \A i \in DOMAIN c.profile :
          \E r \in OwnedBy(profiles, user) : ProfileColumns(r) = c.profile[i]
    /\ \A i \in DOMAIN c.fetched :
          \E r \in OwnedBy(store, user) :
             /\ r.created_at = c.fetched[i].created_at
             /\ r.symptoms = c.fetched[i].symptoms
CallerTouchesOwnRowsOnly ==
    /\ ContextOfCaller(exchange.context)
    /\ \A i \in DOMAIN written.before : written.before[i].user_id = user
    /\ \A j \in DOMAIN ops : \A i \in DOMAIN ops[j].data : ops[j].data[i].user_id = user

\* ---------------------------------------------------------------------------
\* SpecReads: requests to the two handlers that get as far as the storage
\* block, for every userId, every table of the two accounts' rows, an engine
\* call that answers, fails or answers without the tool call, and every
\* combination of failed reads
ReadTables == SUBSET AccountRows
ReachingFollowups == NeverFinishes
ReachingAnalyses == NarrowAnalyses \cup {AnalyzeOutcome("invalid", 200, NoResult)}

InitReads == StartWith([uid \in Users |-> ReadTables], {AccountProfiles, {}})

NextReads ==
    \/ \E uid \in Accounts \cup {NoUser}, o \in ReachingFollowups,
          profileOk \in BOOLEAN, readOk \in BOOLEAN :
          RequestFollowup(<<UserMsg(<<"a">>)>>, uid, o, profileOk, readOk)
    \/ \E uid \in Accounts \cup {NoUser}, o \in ReachingAnalyses,
          profileOk \in BOOLEAN, readOk \in BOOLEAN :
          RequestAnalyze(<<"a">>, <<>>, uid, o, profileOk, readOk)

SpecReads == InitReads /\ [][NextReads]_vars

\* C25: a failed read of the profile or of the history never fails the request.
\* Whatever the reads do, a valid request to symptom-followup or to
\* analyze-symptoms calls the reasoning engine and is answered with success when
\* the engine answers; the block whose read failed is left out of the context
\* bundle; and a request without userId reads nothing and has an empty context.
EngineAnswers(o) == o.kind = "ok" /\ ("content" \in DOMAIN o => o.content # <<>>)
Degraded(uid, o, profileOk, readOk, e) ==
    /\ e.engine >= 1
    /\ EngineAnswers(o) => ResponseOk(e.status)
    /\ ~profileOk => e.context.profile = <<>>
    /\ ~readOk => /\ e.context.fetched = <<>>
                  /\ e.context.relevant = <<>>
                  /\ e.context.excluded = <<>>
    /\ uid = NoUser => ~e.reads /\ e.context = EmptyContext
    /\ uid # NoUser => e.reads
ReadFailureStep ==
    /\ \A uid \in Accounts \cup {NoUser}, o \in ReachingFollowups,
          profileOk \in BOOLEAN, readOk \in BOOLEAN :
          RequestFollowup(<<UserMsg(<<"a">>)>>, uid, o, profileOk, readOk)
             => Degraded(uid, o, profileOk, readOk, exchange')
    /\ \A uid \in Accounts \cup {NoUser}, o \in ReachingAnalyses,
          profileOk \in BOOLEAN, readOk \in BOOLEAN :
          RequestAnalyze(<<"a">>, <<>>, uid, o, profileOk, readOk)
             => Degraded(uid, o, profileOk, readOk, exchange')
ReadFailureDegrades == [][ReadFailureStep]_vars
\* a follow-up answered with a question although the handler's profile read
\* failed: the bundle holds the history and no profile
FailedProfileRead ==
    /\ profiles # {}
    /\ exchange.handler = "symptom-followup"
    /\ exchange.reads
    /\ exchange.status = 200 /\ exchange.engine = 1
    /\ exchange.context.profile = <<>>
    /\ exchange.context.fetched # <<>>

\* ---------------------------------------------------------------------------
\* SpecCaution: the dialogue and the assessment of a signed-in user whose
\* profile holds an age on either side of the two limits the guidelines name
ElderlyAbove == 65
YoungBelow == 12
Ages == {YoungBelow - 1, YoungBelow, ElderlyAbove, ElderlyAbove + 1}

\* the lines of the profile block both handlers write into userContext, and
\* the instructions about age in each handler's system prompt, which are the
\* same for every request
ProfileLines == {"Name", "Age", "Known Health Issues"}
ExtraCaution == "Be extra cautious with elderly patients or very young patients"
Guidelines(handler) ==
    IF handler = "analyze-symptoms" THEN {ExtraCaution} ELSE {}

InitCaution ==
    /\ StartWith([uid \in Users |-> {{}}], {{ProfileRow("u1", a)} : a \in Ages})
    /\ user = "u1"

NextCaution ==
    \/ DialogueSteps({<<"a">>}, NarrowFollowups, BOOLEAN, ChatTurns)
    \/ AssessmentSteps(NarrowAnalyses, BOOLEAN, BOOLEAN, ChatTurns)

SpecCaution == InitCaution /\ [][NextCaution]_vars

\* C26: age-based caution: whenever a handler puts a profile into the context
\* bundle it sends to the engine, follow-up dialogue and assessment alike, what
\* it sends carries an extra-caution annotation if the profile's age is above
\* 65 or below 12, and carries none if the age is from 12 to 65.
NeedsCaution(age) == age > ElderlyAbove \/ age < YoungBelow
CarriesCaution(e) == ExtraCaution \in ProfileLines \cup Guidelines(e.handler)
AgeCaution ==
    \A i \in DOMAIN exchange.context.profile :
       CarriesCaution(exchange) <=> NeedsCaution(exchange.context.profile[i].age)

\* C27: view/store consistency of the cured flag: whenever the continuation of
\* handleToggleCured reports success and sets the displayed entry to newStatus,
\* the table holds that entry with is_cured = newStatus, so that a following
\* fetch shows what the display shows; the display is never updated for an
\* update that changed no row.
ToggleShownStep ==
    \A j \in DOMAIN ops, t \in 1..(MaxClock + 1) :
       (ClientStep(j, t) /\ ops[j].kind = "toggle"
          /\ toast' \in {MarkedCured, MarkedNotCured})
       => \A n \in DOMAIN history' :
             history'[n].id = ops[j].id
             => \E r \in store' : /\ r.id = ops[j].id
                                  /\ Truthy(r.is_cured) = history'[n].is_cured
DisplayMatchesStore == [][ToggleShownStep]_vars

\* ---------------------------------------------------------------------------
\* SpecToggles: the history view of a user with two entries, with up to
\* ToggleOps requests in flight
ToggleOps == 3
TwoEntries == {EarlierRow(1, "u1"), EarlierRow(2, "u1")}

InitToggles == Start([uid \in Users |-> {TwoEntries}]) /\ user = "u1"

NextToggles == ViewSteps({"ok"}, RefreshClock, ToggleOps)

SpecToggles == InitToggles /\ [][NextToggles]_vars

\* C28: within one history view, while an update of handleToggleCured for an
\* entry is in flight, no second update for the same entry is issued, however
\* the toggles on other entries interleave: no two toggle requests in flight
\* name the same entry.
NoDoubleToggle ==
    \A i, j \in DOMAIN ops :
       (i # j /\ ops[i].kind = "toggle" /\ ops[j].kind = "toggle")
       => ops[i].id # ops[j].id

\* C29: in every reachable transcript the roles strictly alternate, starting
\* with a user message: no two user messages and no two assistant messages
\* are adjacent, on the question, completion and error paths alike.
RolesAlternate ==
    \A n \in DOMAIN messages :
       messages[n].role = IF n % 2 = 1 THEN "user" ELSE "assistant"

\* ---------------------------------------------------------------------------
\* SpecSave: dialogues of up to ChatTurns messages, of a visitor or of a
\* signed-in user, whose assessments succeed or fail and whose inserts the
\* table accepts or refuses
NextSave ==
    \/ DialogueSteps({<<"a">>, <<"b">>}, NarrowFollowups, {TRUE}, ChatTurns)
    \/ AssessmentSteps(NarrowAnalyses, {TRUE}, BOOLEAN, ChatTurns)

SpecSave == InitChat /\ [][NextSave]_vars

\* the contents of the user-role messages of a transcript, in its order
NthUser(ms, k) ==
    CHOOSE n \in DOMAIN ms :
       /\ ms[n].role = "user"
       /\ Cardinality({m \in 1..n : ms[m].role = "user"}) = k
UserTexts(ms) == [k \in 1..UserCount(ms) |-> ms[NthUser(ms, k)].content]

\* C30, as stated: the symptoms text of a new entry is the contents of the
\* user-role messages of the handed-over transcript, in order, joined by
\* " | ", and every successful assessment of a signed-in user creates exactly
\* one entry, an assessment of a visitor none.
EntryPerAssessmentStep ==
    /\ \A i \in DOMAIN analyses, ok \in BOOLEAN :
          InsertReply(i, ok)
          => \E r \in store' :
                /\ store' = store \cup {r} /\ r \notin store
                /\ r.symptoms = JoinBar(UserTexts(analyses[i].messages))
    /\ user = NoUser => store' = store
EntryPerAssessment == [][EntryPerAssessmentStep]_vars

\* C30, amended: the insert that follows a successful assessment of a signed-in
\* user creates exactly one entry when the table accepts it and none when the
\* table refuses it; the entry's symptoms text is the contents of the user-role
\* messages of the handed-over transcript, in order, joined by " | ", without
\* any assistant message, and it is stored uncured for that user; nothing else
\* creates an entry, and an assessment of a visitor creates none.
SavedEntry(a, r) ==
    /\ r.symptoms = JoinBar(UserTexts(a.messages))
    /\ r.user_id = user
    /\ r.is_cured = SqlFalse /\ r.cured_at = NullTime
EntryPerAcceptedInsertStep ==
    /\ \A i \in DOMAIN analyses, ok \in BOOLEAN :
          InsertReply(i, ok)
          => /\ user # NoUser
             /\ IF ok
                THEN \E r \in store' : /\ store' = store \cup {r} /\ r \notin store
                                       /\ SavedEntry(analyses[i], r)
                ELSE store' = store
    /\ store' # store => \E i \in DOMAIN analyses : InsertReply(i, TRUE)
    /\ user = NoUser => store' = store
EntryPerAcceptedInsert == [][EntryPerAcceptedInsertStep]_vars
\* an entry created from a transcript of two user messages with an assistant
\* message between them
SavedFromDialogue ==
    /\ written.kind = "insert"
    /\ \E r \in store :
          /\ <<r>> = written.after
          /\ \E x \in {<<"a">>, <<"b">>}, y \in {<<"a">>, <<"b">>} :
                r.symptoms = x \o <<" ", "|", " ">> \o y
    /\ \E n \in DOMAIN conversationHistory : conversationHistory[n].role = "assistant"

====
